---- MODULE Spec2Model ----
(***************************************************************************)
(* Model of graph-explorer's instrument.py: the four decorators (timer,    *)
(* timer_for_subclasses, counter, counter_for_subclasses), the name        *)
(* resolvers, the module-level handle caches and the enable/disable        *)
(* switch, run by concurrent Python threads.  One action is one step a     *)
(* thread takes without another thread being able to come in between (a    *)
(* dictionary lookup, a constructor call, a dictionary store, ...).        *)
(***************************************************************************)
EXTENDS Naturals, Sequences, FiniteSets

(***************************************************************************)
(* Bounds.                                                                 *)
(***************************************************************************)
\* wrapper calls started in one behaviour when calls may overlap
MaxCalls == 2
\* wrapper calls started in one behaviour when they come one at a time
MaxSeqCalls == 3

Threads == {"t1", "t2"}

(***************************************************************************)
(* config.py                                                               *)
(***************************************************************************)
app_name == "graph-explorer"
statsd_params == [host |-> "127.0.0.1", port |-> 8125, sample_rate |-> 1]

APP_NAME == app_name

(***************************************************************************)
(* The classes and callables of the instrumented program.  A dotted name   *)
(* is the sequence of its dot-separated components, so that two formatted  *)
(* names are the same string exactly when the sequences are equal.         *)
(***************************************************************************)
NoClass == "none"

\* class B declares m; S1 and S2 derive from B and do not override m; class
\* A of B's module declares a method of its own that is also called m
ClassInfo ==
    [A  |-> [module |-> <<"m1">>, name |-> "A",  base |-> "object"],
     B  |-> [module |-> <<"m1">>, name |-> "B",  base |-> "object"],
     S1 |-> [module |-> <<"m1">>, name |-> "S1", base |-> "B"],
     S2 |-> [module |-> <<"m2">>, name |-> "S2", base |-> "B"]]

Classes == DOMAIN ClassInfo

\* a free function f of module m1, and the function m of B's class body:
\* a decorator applied in a class body receives the plain function
FnF == [kind |-> "function", module |-> <<"m1">>, name |-> "f", declared_in |-> NoClass]
FnM == [kind |-> "function", module |-> <<"m1">>, name |-> "m", declared_in |-> "B"]

\* the function m of A's class body, a free function g of module m2, and
\* B.m taken as a method object (type 'instancemethod', with im_class)
FnA == [kind |-> "function", module |-> <<"m1">>, name |-> "m", declared_in |-> "A"]
FnG == [kind |-> "function", module |-> <<"m2">>, name |-> "g", declared_in |-> NoClass]
FnBound ==
    [kind |-> "instancemethod", module |-> <<"m1">>, name |-> "m",
     declared_in |-> "B", im_class |-> "B"]

Fns == {FnF, FnG, FnM, FnA, FnBound}

\* threading.current_thread().name: a thread's name is what the program gave
\* it, and nothing keeps two threads from carrying the same one
ThreadNames == {"Thread-1", "worker"}

\* positional arguments: an instance stands for its runtime class
ArgLists == {<<>>} \cup {<<c>> : c \in Classes}

(***************************************************************************)
(* Name resolvers.                                                         *)
(***************************************************************************)
\* _func_package_class_name that names the method by where it is declared
_func_package_class_name_Declared(fn, args) ==
    IF fn.declared_in # NoClass
    THEN <<APP_NAME>> \o fn.module \o <<ClassInfo[fn.declared_in].name>>
                     \o <<fn.name>>
    ELSE <<APP_NAME>> \o fn.module \o <<fn.name>>

\* _func_package_class_name whose fallback leaves the module out
_func_package_class_name_NoModule(fn, args) ==
    IF Len(args) > 0
    THEN <<APP_NAME>> \o ClassInfo[args[1]].module
                     \o <<ClassInfo[args[1]].name>> \o <<fn.name>>
    ELSE <<APP_NAME>> \o <<fn.name>>

\* "{0}.{1}.{2}.{3}".format(APP_NAME, args[0].__class__.__module__,
\*                          args[0].__class__.__name__, fn.__name__)
\* and, with no positional argument, "{0}.{1}.{2}".format(APP_NAME,
\* fn.__module__, fn.__name__)
_func_package_class_name(fn, args) ==
    IF Len(args) > 0
    THEN <<APP_NAME>> \o ClassInfo[args[1]].module
                     \o <<ClassInfo[args[1]].name>> \o <<fn.name>>
    ELSE <<APP_NAME>> \o fn.module \o <<fn.name>>

\* str() of a class, as "{1}".format(fn.im_class) renders it: the text
\* "<class 'module.name'>", whose dots are those of module.name
ClassRepr(c) ==
    <<"<class '">> \o ClassInfo[c].module \o <<ClassInfo[c].name>> \o <<"'>">>

_func_package_and_name(fn) ==
    IF fn.kind = "instancemethod"
    THEN <<APP_NAME>> \o ClassRepr(fn.im_class) \o <<fn.name>>
    ELSE <<APP_NAME>> \o fn.module \o <<fn.name>>

\* _func_package_and_name_thread that leaves the thread out
_func_package_and_name_thread_NoThread(fn, thread_name) ==
    IF fn.kind = "instancemethod"
    THEN <<APP_NAME>> \o ClassRepr(fn.im_class) \o <<fn.name>>
    ELSE <<APP_NAME>> \o fn.module \o <<fn.name>>

\* thread_name is threading.current_thread().name of the calling thread
_func_package_and_name_thread(fn, thread_name) ==
    IF fn.kind = "instancemethod"
    THEN <<APP_NAME>> \o ClassRepr(fn.im_class) \o <<fn.name>> \o <<thread_name>>
    ELSE <<APP_NAME>> \o fn.module \o <<fn.name>> \o <<thread_name>>

\* the resolver each decorator's decorated() calls first
Resolve(dec, fn, args) ==
    IF dec \in {"counter_for_subclasses", "timer_for_subclasses"}
    THEN _func_package_class_name(fn, args)
    ELSE _func_package_and_name(fn)

IsCounter(dec) == dec \in {"counter", "counter_for_subclasses"}
IsTimer(dec) == dec \in {"timer", "timer_for_subclasses"}

\* the wrapped callables of the program and the ways they are called
Shapes ==
    {[dec |-> d, fn |-> FnF, args |-> <<>>] : d \in {"counter", "timer"}}
    \cup {[dec |-> d, fn |-> FnM, args |-> <<c>>] :
             d \in {"counter_for_subclasses", "timer_for_subclasses"},
             c \in {"S1", "S2"}}

Names == {Resolve(s.dec, s.fn, s.args) : s \in Shapes}

(***************************************************************************)
(* The statsd library the module drives: statsd.Connection's class-level   *)
(* defaults, and the Counter and Timer clients.  A client constructed      *)
(* without a connection builds its own statsd.Connection(), which copies   *)
(* the class defaults current at that moment.                              *)
(***************************************************************************)
LibraryDefaults ==
    [host |-> "localhost", port |-> 8125, sample_rate |-> 1, disabled |-> FALSE]

\* statsd.Counter(name) / statsd.Timer(name) under the class defaults d
NewHandle(kind, name, d) ==
    [kind |-> kind, name |-> name, disabled |-> d.disabled,
     incs |-> 0, starts |-> 0, stops |-> 0]

\* Connection.send: a disabled connection drops the report
Sends(h) == ~h.disabled

\* what the original callable may do when invoked
OriginalOutcomes == {<<"return", "v">>, <<"raise", "e">>}
TransportError == <<"raise", "transport">>
NoOutcome == <<"none", "none">>

VARIABLES
    _TIMERS,      \* module-level dict, never written
    _COUNTERS,    \* module-level dict: resolved name -> Counter handle
    defaults,     \* statsd.Connection's class defaults
    handles,      \* every client object constructed so far, by identity
    frame,        \* per thread: the decorated() call it is in, if any
    reports,      \* reports that reached the transport
    ncalls,       \* wrapper calls entered so far
    completed,    \* per resolved name: counter-wrapped calls that have ended,
                  \* by how the call ended
    lastSwitch    \* the last of init_stats/enable_stats/disable_stats called

vars == <<_TIMERS, _COUNTERS, defaults, handles, frame, reports, ncalls,
          completed, lastSwitch>>

EmptyDict == [n \in {} |-> 0]

IdleFrame ==
    [pc |-> "idle", dec |-> "none", fn |-> FnF, args |-> <<>>,
     func_info |-> <<>>, h |-> 0, rval |-> NoOutcome, norig |-> 0,
     out |-> NoOutcome]

Init ==
    /\ _TIMERS = EmptyDict
    /\ _COUNTERS = EmptyDict
    /\ defaults = LibraryDefaults
    /\ handles = <<>>
    /\ frame = [t \in Threads |-> IdleFrame]
    /\ reports = 0
    /\ ncalls = 0
    /\ completed = [n \in Names |-> [returned |-> 0, raised |-> 0]]
    /\ lastSwitch = "none"

(***************************************************************************)
(* A wrapper call.  decorated() of counter and counter_for_subclasses      *)
(* differ only in the resolver, and so do the two timers.                  *)
(***************************************************************************)
DictSet(d, k, v) == [n \in DOMAIN d \cup {k} |-> IF n = k THEN v ELSE d[n]]

Goto(t, f) == frame' = [frame EXCEPT ![t] = f]

AllIdle == \A t \in Threads : frame[t].pc = "idle"

\* a thread calls a wrapped callable: decorated() starts and resolves the name
EnterUpTo(t, limit) ==
    /\ frame[t].pc = "idle"
    /\ ncalls < limit
    /\ \E s \in Shapes :
         Goto(t, [IdleFrame EXCEPT
                    !.pc = IF IsCounter(s.dec) THEN "lookup" ELSE "tcreate",
                    !.dec = s.dec, !.fn = s.fn, !.args = s.args,
                    !.func_info = Resolve(s.dec, s.fn, s.args)])
    /\ ncalls' = ncalls + 1
    /\ UNCHANGED <<_TIMERS, _COUNTERS, defaults, handles, reports, completed,
                   lastSwitch>>

\* CounterLookup that, on a miss, waits for the key to appear instead of
\* creating the handle itself
CounterLookup_WaitsForKey(t) ==
    /\ frame[t].pc = "lookup"
    /\ frame[t].func_info \in DOMAIN _COUNTERS
    /\ Goto(t, [frame[t] EXCEPT !.pc = "incr",
                                !.h = _COUNTERS[frame[t].func_info]])
    /\ UNCHANGED <<_TIMERS, _COUNTERS, defaults, handles, reports, ncalls,
                   completed, lastSwitch>>

\* CounterLookup in a decorated() that increments only in the except branch,
\* so that a call that finds the handle does not count
CounterLookup_HitSkipsIncr(t) ==
    /\ frame[t].pc = "lookup"
    /\ IF frame[t].func_info \in DOMAIN _COUNTERS
       THEN Goto(t, [frame[t] EXCEPT !.pc = "call",
                                     !.h = _COUNTERS[frame[t].func_info]])
       ELSE Goto(t, [frame[t] EXCEPT !.pc = "create"])
    /\ UNCHANGED <<_TIMERS, _COUNTERS, defaults, handles, reports, ncalls,
                   completed, lastSwitch>>

\* CounterLookup with a lookup that never hits
CounterLookup_AlwaysMiss(t) ==
    /\ frame[t].pc = "lookup"
    /\ Goto(t, [frame[t] EXCEPT !.pc = "create"])
    /\ UNCHANGED <<_TIMERS, _COUNTERS, defaults, handles, reports, ncalls,
                   completed, lastSwitch>>

\* try: my_counter = _COUNTERS[func_info]      except KeyError:
CounterLookup(t) ==
    /\ frame[t].pc = "lookup"
    /\ IF frame[t].func_info \in DOMAIN _COUNTERS
       THEN Goto(t, [frame[t] EXCEPT !.pc = "incr",
                                     !.h = _COUNTERS[frame[t].func_info]])
       ELSE Goto(t, [frame[t] EXCEPT !.pc = "create"])
    /\ UNCHANGED <<_TIMERS, _COUNTERS, defaults, handles, reports, ncalls,
                   completed, lastSwitch>>

\* CounterCreate that names the Counter with the plain-mode resolver whatever
\* the decorator
CounterCreate_PlainName(t) ==
    /\ frame[t].pc = "create"
    /\ handles' = Append(handles, NewHandle("Counter",
                            _func_package_and_name(frame[t].fn), defaults))
    /\ Goto(t, [frame[t] EXCEPT !.pc = "store", !.h = Len(handles) + 1])
    /\ UNCHANGED <<_TIMERS, _COUNTERS, defaults, reports, ncalls, completed,
                   lastSwitch>>

\* my_counter = statsd.Counter(func_info)
CounterCreate(t) ==
    /\ frame[t].pc = "create"
    /\ handles' = Append(handles, NewHandle("Counter", frame[t].func_info, defaults))
    /\ Goto(t, [frame[t] EXCEPT !.pc = "store", !.h = Len(handles) + 1])
    /\ UNCHANGED <<_TIMERS, _COUNTERS, defaults, reports, ncalls, completed,
                   lastSwitch>>

\* CounterStore in a decorated() that increments only in the else: branch of
\* the try, so that the call that creates the handle does not count
CounterStore_ThenSkipIncr(t) ==
    /\ frame[t].pc = "store"
    /\ _COUNTERS' = DictSet(_COUNTERS, frame[t].func_info, frame[t].h)
    /\ Goto(t, [frame[t] EXCEPT !.pc = "call"])
    /\ UNCHANGED <<_TIMERS, defaults, handles, reports, ncalls, completed,
                   lastSwitch>>

\* _COUNTERS[func_info] = my_counter
CounterStore(t) ==
    /\ frame[t].pc = "store"
    /\ _COUNTERS' = DictSet(_COUNTERS, frame[t].func_info, frame[t].h)
    /\ Goto(t, [frame[t] EXCEPT !.pc = "incr"])
    /\ UNCHANGED <<_TIMERS, defaults, handles, reports, ncalls, completed,
                   lastSwitch>>

\* CounterIncr in a decorated() whose increment was moved below the call of
\* the original
CounterIncr_AfterCall(t) ==
    /\ frame[t].pc = "incr"
    /\ Goto(t, [frame[t] EXCEPT !.pc = "call"])
    /\ UNCHANGED <<_TIMERS, _COUNTERS, defaults, handles, reports, ncalls,
                   completed, lastSwitch>>

\* my_counter += 1
CounterIncr(t) ==
    /\ frame[t].pc = "incr"
    /\ handles' = [handles EXCEPT ![frame[t].h].incs = @ + 1]
    /\ reports' = IF Sends(handles[frame[t].h]) THEN reports + 1 ELSE reports
    /\ Goto(t, [frame[t] EXCEPT !.pc = "call"])
    /\ UNCHANGED <<_TIMERS, _COUNTERS, defaults, ncalls, completed, lastSwitch>>

\* TimerCreate that also keeps the Timer in _TIMERS
TimerCreate_Caches(t) ==
    /\ frame[t].pc = "tcreate"
    /\ handles' = Append(handles, NewHandle("Timer", frame[t].func_info, defaults))
    /\ _TIMERS' = DictSet(_TIMERS, frame[t].func_info, Len(handles) + 1)
    /\ Goto(t, [frame[t] EXCEPT !.pc = "start", !.h = Len(handles) + 1])
    /\ UNCHANGED <<_COUNTERS, defaults, reports, ncalls, completed, lastSwitch>>

\* my_timer = statsd.Timer(func_info)
TimerCreate(t) ==
    /\ frame[t].pc = "tcreate"
    /\ handles' = Append(handles, NewHandle("Timer", frame[t].func_info, defaults))
    /\ Goto(t, [frame[t] EXCEPT !.pc = "start", !.h = Len(handles) + 1])
    /\ UNCHANGED <<_TIMERS, _COUNTERS, defaults, reports, ncalls, completed,
                   lastSwitch>>

\* TimerStart in a decorated() that never calls start()
TimerStart_Skipped(t) ==
    /\ frame[t].pc = "start"
    /\ Goto(t, [frame[t] EXCEPT !.pc = "call"])
    /\ UNCHANGED <<_TIMERS, _COUNTERS, defaults, handles, reports, ncalls,
                   completed, lastSwitch>>

\* my_timer.start()
TimerStart(t) ==
    /\ frame[t].pc = "start"
    /\ handles' = [handles EXCEPT ![frame[t].h].starts = @ + 1]
    /\ Goto(t, [frame[t] EXCEPT !.pc = "call"])
    /\ UNCHANGED <<_TIMERS, _COUNTERS, defaults, reports, ncalls, completed,
                   lastSwitch>>

\* AfterOriginal in a timer that forgets "return rval" and whose stop() sits
\* in a bare except
AfterOriginal_LosesOutcome(f, o) ==
    IF IsTimer(f.dec)
    THEN [f EXCEPT !.pc = "stop", !.rval = <<"return", "None">>, !.norig = @ + 1]
    ELSE [f EXCEPT !.pc = "done", !.rval = o, !.norig = @ + 1, !.out = o]

\* what decorated() does with the original's outcome o: the counters return
\* it as it is; the timers keep a returned value in rval and go on to stop(),
\* and an exception leaves decorated() at once
AfterOriginal(f, o) ==
    IF IsTimer(f.dec) /\ o[1] = "return"
    THEN [f EXCEPT !.pc = "stop", !.rval = o, !.norig = @ + 1]
    ELSE [f EXCEPT !.pc = "done", !.rval = o, !.norig = @ + 1, !.out = o]

\* fn(*args, **kwargs)
InvokeOriginal(t) ==
    /\ frame[t].pc = "call"
    /\ \E o \in OriginalOutcomes : Goto(t, AfterOriginal(frame[t], o))
    /\ UNCHANGED <<_TIMERS, _COUNTERS, defaults, handles, reports, ncalls,
                   completed, lastSwitch>>

\* my_timer.stop(); return rval
TimerStop(t) ==
    /\ frame[t].pc = "stop"
    /\ handles' = [handles EXCEPT ![frame[t].h].stops = @ + 1]
    /\ reports' = IF Sends(handles[frame[t].h]) THEN reports + 1 ELSE reports
    /\ Goto(t, [frame[t] EXCEPT !.pc = "done", !.out = frame[t].rval])
    /\ UNCHANGED <<_TIMERS, _COUNTERS, defaults, ncalls, completed, lastSwitch>>

\* decorated() has ended: its caller has the outcome, the thread moves on
Return(t) ==
    /\ frame[t].pc = "done"
    /\ completed' =
         IF ~IsCounter(frame[t].dec) THEN completed
         ELSE IF frame[t].out[1] = "return"
         THEN [completed EXCEPT ![frame[t].func_info].returned = @ + 1]
         ELSE [completed EXCEPT ![frame[t].func_info].raised = @ + 1]
    /\ Goto(t, IdleFrame)
    /\ UNCHANGED <<_TIMERS, _COUNTERS, defaults, handles, reports, ncalls,
                   lastSwitch>>

\* a call into statsd (constructor, += 1, start(), stop()) raises: none of
\* the four decorated() bodies has a handler, so the exception leaves it
TransportRaises(t) ==
    /\ frame[t].pc \in {"create", "incr", "tcreate", "start", "stop"}
    /\ Goto(t, [frame[t] EXCEPT !.pc = "done", !.out = TransportError])
    /\ UNCHANGED <<_TIMERS, _COUNTERS, defaults, handles, reports, ncalls,
                   completed, lastSwitch>>

\* the ways a resolver can be called
ResolverCalls ==
    {[resolver |-> "_func_package_and_name", fn |-> f, args |-> <<>>,
      thread_name |-> "Thread-1"] : f \in Fns}
    \cup {[resolver |-> "_func_package_and_name_thread", fn |-> f, args |-> <<>>,
           thread_name |-> nm] : f \in Fns, nm \in ThreadNames}
    \cup {[resolver |-> "_func_package_class_name", fn |-> f, args |-> a,
           thread_name |-> "Thread-1"] : f \in Fns, a \in ArgLists}

ResolverResult(r) ==
    CASE r.resolver = "_func_package_and_name" -> _func_package_and_name(r.fn)
      [] r.resolver = "_func_package_and_name_thread" ->
             _func_package_and_name_thread(r.fn, r.thread_name)
      [] r.resolver = "_func_package_class_name" ->
             _func_package_class_name(r.fn, r.args)

\* thread t calls one of the resolvers and holds the name it returned
ResolveName(t) ==
    /\ frame[t].pc \in {"idle", "resolved"}
    /\ \E r \in ResolverCalls :
         Goto(t, [pc |-> "resolved", dec |-> r.resolver, fn |-> r.fn,
                  args |-> r.args, thread_name |-> r.thread_name,
                  func_info |-> ResolverResult(r), h |-> 0, rval |-> NoOutcome,
                  norig |-> 0, out |-> NoOutcome])
    /\ UNCHANGED <<_TIMERS, _COUNTERS, defaults, handles, reports, ncalls,
                   completed, lastSwitch>>

(***************************************************************************)
(* The switch.                                                             *)
(***************************************************************************)
\* statsd.Connection.set_defaults(host=..., port=..., sample_rate=..., disabled=...)
set_defaults(host, port, sample_rate, disabled) ==
    defaults' = [host |-> host, port |-> port, sample_rate |-> sample_rate,
                 disabled |-> disabled]

\* port and sample_rate go through int(); config.py holds integers, which
\* int() returns as they are
enable_stats ==
    /\ set_defaults(statsd_params.host, statsd_params.port,
                    statsd_params.sample_rate, FALSE)
    /\ lastSwitch' = "enable_stats"
    /\ UNCHANGED <<_TIMERS, _COUNTERS, handles, frame, reports, ncalls, completed>>

\* disable_stats that only flips the flag instead of re-applying the parameters
disable_stats_FlagOnly ==
    /\ defaults' = [defaults EXCEPT !.disabled = TRUE]
    /\ lastSwitch' = "disable_stats"
    /\ UNCHANGED <<_TIMERS, _COUNTERS, handles, frame, reports, ncalls, completed>>

disable_stats ==
    /\ set_defaults(statsd_params.host, statsd_params.port,
                    statsd_params.sample_rate, TRUE)
    /\ lastSwitch' = "disable_stats"
    /\ UNCHANGED <<_TIMERS, _COUNTERS, handles, frame, reports, ncalls, completed>>

init_stats ==
    /\ set_defaults(statsd_params.host, statsd_params.port,
                    statsd_params.sample_rate, FALSE)
    /\ lastSwitch' = "init_stats"
    /\ UNCHANGED <<_TIMERS, _COUNTERS, handles, frame, reports, ncalls, completed>>

(***************************************************************************)
(* Specifications.                                                         *)
(***************************************************************************)
Step(t) ==
    \/ CounterLookup(t)
    \/ CounterCreate(t)
    \/ CounterStore(t)
    \/ CounterIncr(t)
    \/ TimerCreate(t)
    \/ TimerStart(t)
    \/ InvokeOriginal(t)
    \/ TimerStop(t)
    \/ Return(t)

Switch == enable_stats \/ disable_stats \/ init_stats

\* any number of threads inside wrapper calls at once
Enter(t) == EnterUpTo(t, MaxCalls)

Next == (\E t \in Threads : Enter(t) \/ Step(t)) \/ Switch

Spec == Init /\ [][Next]_vars

\* every thread inside a wrapper call keeps being scheduled, and the
\* original callable it invokes ends
SpecLive == Spec /\ \A t \in Threads : WF_vars(Step(t))

\* one wrapper call at a time, from any thread
SeqEnter(t) == AllIdle /\ EnterUpTo(t, MaxSeqCalls)

NextSeq == (\E t \in Threads : SeqEnter(t) \/ Step(t)) \/ Switch

SpecSeq == Init /\ [][NextSeq]_vars

\* every operation of the module called one at a time: a switch call comes
\* between wrapper calls, never during one
SerialSwitch == AllIdle /\ Switch

NextSerial == (\E t \in Threads : SeqEnter(t) \/ Step(t)) \/ SerialSwitch

SpecSerial == Init /\ [][NextSerial]_vars

\* the three resolvers called on their own, on any callable, argument list
\* and thread
NextNames == \E t \in Threads : ResolveName(t)

SpecNames == Init /\ [][NextNames]_vars

\* a transport whose calls may raise
NextFault == Next \/ (\E t \in Threads : TransportRaises(t))

SpecFault == Init /\ [][NextFault]_vars

(***************************************************************************)
(* Properties.                                                             *)
(***************************************************************************)
\* the Counter (Timer) objects ever constructed for name n
CounterHandles(n) ==
    {i \in DOMAIN handles : handles[i].kind = "Counter" /\ handles[i].name = n}
TimerHandles(n) ==
    {i \in DOMAIN handles : handles[i].kind = "Timer" /\ handles[i].name = n}

\* counter-wrapped calls for name n that have ended
Ended(n) == completed[n].returned + completed[n].raised

\* threads inside a counter-wrapped call that has done its increment
PastIncrement(n) ==
    {t \in Threads : /\ IsCounter(frame[t].dec)
                     /\ frame[t].func_info = n
                     /\ frame[t].pc \in {"call", "done"}}

\* the increments the handle cached under n has received
CachedIncs(n) == IF n \in DOMAIN _COUNTERS THEN handles[_COUNTERS[n]].incs ELSE 0

\* C1: with calls overlapping, at most one Counter is ever constructed for a
\* name, and every call that has incremented did so on the Counter that the
\* cache holds for its name.
C1_OneCounterPerNameConcurrent ==
    \A n \in Names :
        /\ Cardinality(CounterHandles(n)) <= 1
        /\ \A t \in PastIncrement(n) :
              n \in DOMAIN _COUNTERS /\ frame[t].h = _COUNTERS[n]

\* C2: with calls coming one at a time, once a counter-wrapped call for a
\* name has ended exactly one Counter has been constructed for that name, it
\* is the cached one, and a call in progress holds no other.
C2_OneCounterPerNameSequential ==
    \A n \in Names :
        /\ Ended(n) >= 1 =>
              /\ n \in DOMAIN _COUNTERS
              /\ CounterHandles(n) = {_COUNTERS[n]}
        /\ \A t \in Threads :
              (IsCounter(frame[t].dec) /\ frame[t].func_info = n
                 /\ frame[t].h # 0) => CounterHandles(n) = {frame[t].h}

C2_Witness ==
    \E n \in Names : Ended(n) >= 2 /\ Cardinality(CounterHandles(n)) = 1

\* C3: at most one Timer is ever constructed for a name: two timer-wrapped
\* calls with the same resolved name use the same Timer.
C3_OneTimerPerName ==
    \A n \in Names : Cardinality(TimerHandles(n)) <= 1

\* C4: a timer-wrapped call that has ended after start() ran has had exactly
\* one stop(), whether the original returned or raised.
C4_StopFollowsStart ==
    \A t \in Threads :
        (IsTimer(frame[t].dec) /\ frame[t].pc = "done" /\ frame[t].h # 0
           /\ handles[frame[t].h].starts = 1) => handles[frame[t].h].stops = 1

\* C5: with calls coming one at a time and none in progress, the Counter
\* cached under a name has received exactly as many increments as
\* counter-wrapped calls for that name have ended, however they ended (none
\* cached and none received when no call was made).
C5_ExactlyKIncrements ==
    AllIdle => \A n \in Names : CachedIncs(n) = Ended(n)

C5_Witness ==
    /\ AllIdle
    /\ \E n \in Names : /\ completed[n].raised = 3
                         /\ completed[n].returned = 0
                         /\ CachedIncs(n) = 3

\* C6: a wrapper call that has ended called the original exactly once and
\* ended the way the original did: the same value returned, or the same
\* error raised.
C6_OutcomeUnchanged ==
    \A t \in Threads :
        frame[t].pc = "done" =>
            /\ frame[t].norig = 1
            /\ frame[t].rval \in OriginalOutcomes
            /\ frame[t].out = frame[t].rval

C6_Witness ==
    /\ frame["t1"].pc = "done" /\ frame["t1"].dec = "timer_for_subclasses"
    /\ frame["t1"].out = <<"raise", "e">>
    /\ frame["t2"].pc = "done" /\ frame["t2"].dec = "counter"
    /\ frame["t2"].out = <<"return", "v">>

\* C7: with a transport whose calls may raise, a wrapper call that has ended
\* still called the original once and did not end with the transport's error.
C7_TransportFailureInvisible ==
    \A t \in Threads :
        frame[t].pc = "done" =>
            /\ frame[t].norig = 1
            /\ frame[t].out # TransportError

\* reports attempted so far: every increment and every stop()
Attempts ==
    LET RECURSIVE Sum(_)
        Sum(i) == IF i = 0 THEN 0
                  ELSE handles[i].incs + handles[i].stops + Sum(i - 1)
    IN  Sum(Len(handles))

\* C8: while disable_stats() is the last switch call no step makes a report
\* reach the transport, and while enable_stats() or init_stats() is the last
\* one every increment and every stop() does, whenever the handle was made.
C8_SwitchIsLive ==
    [][/\ lastSwitch = "disable_stats" => reports' = reports
       /\ (lastSwitch \in {"enable_stats", "init_stats"} /\ Attempts' > Attempts)
             => reports' = reports + 1]_vars

\* C9: once a switch call has been made, the transport defaults are host,
\* port and sample_rate of config.statsd_params, and disabled exactly when
\* the last call was disable_stats(): the state depends on the last call
\* only, and init_stats() leaves what enable_stats() leaves.
C9_LastSwitchWins ==
    lastSwitch # "none" =>
        defaults = [host |-> statsd_params.host, port |-> statsd_params.port,
                    sample_rate |-> statsd_params.sample_rate,
                    disabled |-> (lastSwitch = "disable_stats")]

C9_Witness ==
    /\ lastSwitch = "disable_stats"
    /\ defaults.disabled
    /\ defaults.host = "127.0.0.1"
    /\ \E i \in DOMAIN handles : ~handles[i].disabled

Contains(name, part) == \E i \in DOMAIN name : name[i] = part

\* two calls in progress of one method through the subclass-aware resolver,
\* on instances of two different subclasses of the class that declares it
SubclassCalls(t1, t2) ==
    /\ frame[t1].dec \in {"counter_for_subclasses", "timer_for_subclasses"}
    /\ frame[t2].dec \in {"counter_for_subclasses", "timer_for_subclasses"}
    /\ frame[t1].fn = frame[t2].fn
    /\ Len(frame[t1].args) > 0 /\ Len(frame[t2].args) > 0
    /\ frame[t1].args[1] # frame[t2].args[1]
    /\ ClassInfo[frame[t1].args[1]].base = frame[t1].fn.declared_in
    /\ ClassInfo[frame[t2].args[1]].base = frame[t2].fn.declared_in

Resolved(t, r) == frame[t].pc = "resolved" /\ frame[t].dec = r

C12_PlainNamesDistinct ==
    \A t1, t2 \in Threads :
        (Resolved(t1, "_func_package_and_name")
           /\ Resolved(t2, "_func_package_and_name")
           /\ frame[t1].fn # frame[t2].fn)
        => frame[t1].func_info # frame[t2].func_info

\* two threads hold thread-aware names of one callable
SameCallableTwoThreads(t1, t2) ==
    /\ t1 # t2
    /\ Resolved(t1, "_func_package_and_name_thread")
    /\ Resolved(t2, "_func_package_and_name_thread")
    /\ frame[t1].fn = frame[t2].fn

\* each thread-aware name is the callable's plain-mode name followed by the
\* name of the thread that resolved it
PlainThenThread(t) ==
    frame[t].func_info =
        _func_package_and_name(frame[t].fn) \o <<frame[t].thread_name>>

\* C13 as claimed: one callable resolved in thread-aware mode by two
\* different threads gives two different names, each the plain-mode name
\* followed by the thread's name.
C13_OneNamePerThread ==
    \A t1, t2 \in Threads :
        SameCallableTwoThreads(t1, t2) =>
            /\ frame[t1].func_info # frame[t2].func_info
            /\ PlainThenThread(t1) /\ PlainThenThread(t2)

\* C13 as amended: one callable resolved in thread-aware mode by threads
\* whose names differ gives one distinct name per thread, each the
\* plain-mode name followed by the thread's name; threads that carry the
\* same name get the same metric name.
C13_OneNamePerThreadName ==
    \A t1, t2 \in Threads :
        SameCallableTwoThreads(t1, t2) =>
            /\ PlainThenThread(t1) /\ PlainThenThread(t2)
            /\ (frame[t1].func_info = frame[t2].func_info)
                  <=> (frame[t1].thread_name = frame[t2].thread_name)

C13_Witness ==
    /\ SameCallableTwoThreads("t1", "t2")
    /\ frame["t1"].fn = FnBound
    /\ frame["t1"].thread_name = "Thread-1" /\ frame["t2"].thread_name = "worker"
    /\ frame["t1"].func_info # frame["t2"].func_info

\* C14: once a name is a key of _COUNTERS it stays one, and the handle
\* stored under it is never replaced.
C14_CacheAppendOnly ==
    [][\A n \in DOMAIN _COUNTERS :
          n \in DOMAIN _COUNTERS' /\ _COUNTERS'[n] = _COUNTERS[n]]_vars

\* the increments received by all Counters ever constructed for name n
TotalIncs(n) ==
    LET RECURSIVE Sum(_)
        Sum(i) == IF i = 0 THEN 0
                  ELSE (IF i \in CounterHandles(n) THEN handles[i].incs ELSE 0)
                       + Sum(i - 1)
    IN  Sum(Len(handles))

\* threads inside a counter-wrapped call for n whose original has been invoked
OriginalInvoked(n) ==
    {t \in Threads : /\ IsCounter(frame[t].dec)
                     /\ frame[t].func_info = n
                     /\ frame[t].norig >= 1}

\* C15: in a counter-wrapped call the original is invoked only after the
\* call's Counter has been incremented, so the increments of a name are
\* never fewer than the originals invoked for it, whether they returned or
\* raised.
C15_IncrementBeforeCall ==
    \A n \in Names :
        /\ \A t \in OriginalInvoked(n) :
              frame[t].h # 0 /\ handles[frame[t].h].incs >= 1
        /\ TotalIncs(n) >= Ended(n) + Cardinality(OriginalInvoked(n))

C15_Witness ==
    \E n \in Names :
        /\ completed[n].raised = 1 /\ completed[n].returned = 0
        /\ \E t \in OriginalInvoked(n) : frame[t].out[1] = "raise"
        /\ TotalIncs(n) = 2

\* C16: in a timer-wrapped call the Timer is one constructed for the
\* resolved name; start() runs once before the original is invoked, stop()
\* runs at most once and only after the original has returned, and a call
\* that has ended by returning has had its one stop().
C16_TimerEventOrder ==
    \A t \in Threads :
        IsTimer(frame[t].dec) =>
            IF frame[t].h = 0 THEN frame[t].norig = 0
            ELSE LET H == handles[frame[t].h]
                 IN  /\ H.kind = "Timer" /\ H.name = frame[t].func_info
                     /\ H.stops <= frame[t].norig
                     /\ frame[t].norig <= H.starts
                     /\ H.starts <= 1
                     /\ H.stops = 1 => frame[t].rval[1] = "return"
                     /\ (frame[t].pc = "done" /\ frame[t].out[1] = "return")
                           => H.stops = 1

C16_Witness ==
    \E t \in Threads :
        /\ IsTimer(frame[t].dec) /\ frame[t].pc = "done"
        /\ frame[t].out = <<"return", "v">>
        /\ TimerHandles(frame[t].func_info) = {frame[t].h}
        /\ handles[frame[t].h].starts = 1 /\ handles[frame[t].h].stops = 1

\* C17: under fair scheduling every wrapper call in progress comes to its
\* end, whatever other calls and switch calls are interleaved with it.
C17_EveryCallCompletes ==
    \A t \in Threads : (frame[t].pc # "idle") ~> (frame[t].pc = "idle")

C17_Witness ==
    /\ frame["t1"].pc = "store" /\ frame["t2"].pc = "store"
    /\ frame["t1"].func_info = frame["t2"].func_info
    /\ lastSwitch = "disable_stats"

\* C18: the increments received by all Counters ever constructed for a name
\* equal the counter-wrapped calls for that name that are past their
\* increment, also when a first-use race constructed two Counters.
C18_NoIncrementLost ==
    \A n \in Names :
        TotalIncs(n) = Ended(n) + Cardinality(PastIncrement(n))

C18_Witness ==
    \E n \in Names :
        /\ Cardinality(CounterHandles(n)) = 2
        /\ TotalIncs(n) = 2
        /\ CachedIncs(n) = 1

\* the step is thread t storing the key it resolved after missing the cache
StoresItsKey(t) ==
    /\ IsCounter(frame[t].dec) /\ frame[t].pc = "store"
    /\ _COUNTERS' = DictSet(_COUNTERS, frame[t].func_info, frame[t].h)
    /\ DOMAIN _COUNTERS' = DOMAIN _COUNTERS \cup {frame[t].func_info}
    /\ \A k \in DOMAIN _COUNTERS :
          k # frame[t].func_info => _COUNTERS'[k] = _COUNTERS[k]

\* C19: a step that changes _COUNTERS is a counter-wrapped call that missed
\* the cache setting the entry of the one key it resolved; it is no switch
\* call and no timer-wrapped call.  _TIMERS is never written and stays
\* empty, and a step of a wrapper call leaves the transport defaults alone.
C19_FrameProperty ==
    [][/\ _COUNTERS' # _COUNTERS =>
             /\ \E t \in Threads : StoresItsKey(t)
             /\ lastSwitch' = lastSwitch
       /\ _TIMERS = EmptyDict /\ _TIMERS' = _TIMERS
       /\ frame' # frame => defaults' = defaults]_vars

C19_Witness ==
    /\ Cardinality(DOMAIN _COUNTERS) = 1
    /\ \E i \in DOMAIN handles : handles[i].kind = "Timer" /\ handles[i].stops = 1
    /\ _TIMERS = EmptyDict
    /\ defaults.disabled

\* C20: every key of _COUNTERS maps to a Counter that was constructed with
\* that key as its name.
C20_KeyIsHandleName ==
    \A k \in DOMAIN _COUNTERS :
        /\ _COUNTERS[k] \in DOMAIN handles
        /\ handles[_COUNTERS[k]].kind = "Counter"
        /\ handles[_COUNTERS[k]].name = k

C20_Witness ==
    \E k \in DOMAIN _COUNTERS :
        /\ Cardinality(CounterHandles(k)) = 2
        /\ handles[_COUNTERS[k]].name = k
        /\ k = <<"graph-explorer", "m2", "S2", "m">>

====
